---------------------------- MODULE Spec2Model ----------------------------
(***************************************************************************)
(* pypatstat ETL: the deduplicating bulk-load pipeline of                  *)
(* pypatstat/etl/data_loader.py, the archive iteration of                  *)
(* pypatstat/etl/utils.py and the DDL parser of                            *)
(* pypatstat/etl/schema_maker.py.                                          *)
(*                                                                         *)
(* One behaviour is one invocation of a function by a caller (entry):      *)
(* write_to_db (possibly repeated on the same batch), zipfile_to_db,       *)
(* _download_patstat_to_db, get_class_by_tablename, files_in_zipfile,      *)
(* iterchunks, parse_sql_table_fields or _get_field_data.  The chunked     *)
(* CSV reader is modelled by its dtype inference.  The relational backend  *)
(* is an external collaborator: it is modelled at its interface (a table   *)
(* with a primary-key constraint, whose calls may raise) and every place   *)
(* where its outcome is not fixed by the code is a nondeterministic        *)
(* choice.                                                                 *)
(***************************************************************************)
EXTENDS Integers, Sequences, FiniteSets, TLC

VARIABLES
    entry,             \* the public function the caller invoked
    pc,                \* position inside the running function
    status,            \* "running" | "returned" | "raised"
    exc,               \* the exception that left the function, or "none"
    (* arguments of zipfile_to_db / _download_patstat_to_db *)
    archives,          \* the archives, each the list of its file names
    restart_filename,  \* the restart marker, or None
    skip_fnames,       \* the skip list
    loaded,            \* the files the run reached line 161 with, and their filter_pks
    (* arguments and locals of write_to_db *)
    rows,              \* the local `rows` (rebound at line 126)
    filter_pks,
    pks,               \* line 121
    new_pks,           \* line 123
    offset,            \* pk_chunks: line 86
    page_len,          \* pk_chunks: len(pks) of the last page, -1 before it
    session_open,
    conn_open,
    (* the backend *)
    db_exists,
    table_exists,
    store,             \* the table's rows, in storage order
    (* bookkeeping of the caller *)
    batch,             \* the batch the caller passes to write_to_db
    injected,          \* the errors the backend raised during this call
    hist,              \* one summary per finished write_to_db call
    runs,              \* one summary per finished zipfile_to_db call
    (* a direct call of one of the other functions *)
    args,              \* the arguments the caller passes
    result,            \* what the call returned or yielded, None before
    (* a second process running write_to_db against the same table *)
    other              \* its arguments, locals and position while the
                       \* first process runs (and the reverse), or NoWriter

vars == <<entry, pc, status, exc, archives, restart_filename, skip_fnames,
          loaded, rows, filter_pks, pks, new_pks, offset, page_len,
          session_open, conn_open, db_exists, table_exists, store, batch,
          injected, hist, runs, args, result, other>>

fn_vars == <<args, result>>
run_vars == <<archives, restart_filename, skip_fnames, loaded>>
local_vars == <<rows, filter_pks, pks, new_pks, offset, page_len>>
backend_vars == <<db_exists, table_exists, store>>

-----------------------------------------------------------------------------
(* Bounds of the model *)

MaxBatch == 2      \* rows in one batch
MaxStored == 2     \* rows in the table before the first call
MaxCalls == 2      \* times the caller passes the same batch to write_to_db
MaxFaults == 2     \* errors the backend raises during one call
MaxRuns == 2       \* times the caller runs zipfile_to_db on the same archive
MaxFiles == 3      \* files in one archive
MaxArchives == 2   \* archives on the download page
PkChunkSize == 2   \* pk_chunks' chunksize (100000 in the code), scaled

-----------------------------------------------------------------------------
(* Python values *)

None == [none |-> TRUE]
S(s) == [str |-> s]
I(n) == [int |-> n]
PyDict(d) == [dict |-> d]
PyList(l) == [list |-> l]
\* A float with a whole value, and the float nan
F(n) == [float |-> n]
NaN == [nan |-> TRUE]

IsStr(v) == DOMAIN v = {"str"}
IsInt(v) == DOMAIN v = {"int"}
IsDict(v) == DOMAIN v = {"dict"}
IsFloat(v) == DOMAIN v = {"float"}

Digit(d) ==
    CASE d = 0 -> "0" [] d = 1 -> "1" [] d = 2 -> "2" [] d = 3 -> "3"
      [] d = 4 -> "4" [] d = 5 -> "5" [] d = 6 -> "6" [] d = 7 -> "7"
      [] d = 8 -> "8" [] d = 9 -> "9"

RECURSIVE Decimal(_)
Decimal(n) == IF n < 10 THEN Digit(n) ELSE Decimal(n \div 10) \o Digit(n % 10)

\* str(v) of Python
str(v) ==
    IF IsStr(v) THEN v
    ELSE IF IsInt(v)
         THEN S(IF v.int < 0 THEN "-" \o Decimal(-v.int) ELSE Decimal(v.int))
    ELSE IF IsFloat(v) THEN S(Decimal(v.float) \o ".0")
    ELSE S("None")

-----------------------------------------------------------------------------
(* The table model `_class`: two primary-key columns and one data column *)

pkey_cols ==
    << [name |-> "k1", python_type |-> "str"],
       [name |-> "k2", python_type |-> "int"] >>

Row(k1, k2, d) == [k1 |-> k1, k2 |-> k2, d |-> d]

\* The row records a chunk may hold.  The reader may have inferred int for a
\* cell of the string column k1.
RowRecords ==
    { Row(S("0001"), I(0), S("x")),
      Row(S("0001"), I(0), S("y")),
      Row(S(""), I(0), S("x")),
      Row(I(7), I(1), S("x")) }

make_pk(row) ==
    [i \in 1..Len(pkey_cols) |->
        IF pkey_cols[i].python_type # "str"
        THEN row[pkey_cols[i].name]
        ELSE str(row[pkey_cols[i].name])]

\* The backend stores a value of a string column as a string.
Stored(row) == [row EXCEPT !.k1 = str(row.k1)]

\* session.query(*fields): the primary-key tuple of a stored row
StoredKey(srow) == [i \in 1..Len(pkey_cols) |-> srow[pkey_cols[i].name]]

StoredKeys(st) == { StoredKey(st[i]) : i \in 1..Len(st) }


-----------------------------------------------------------------------------
(* The backend: outcomes of one call into it *)

\* The errors a call into the backend may raise of its own accord:
\* sqlalchemy.exc.OperationalError is the transient contention error,
\* ProgrammingError stands for every other one.
BackendErrors == {"OperationalError", "ProgrammingError"}

Outcomes ==
    {"ok"} \cup (IF Len(injected) < MaxFaults THEN BackendErrors ELSE {})

\* `injected` after a call into the backend at this step that raised e
Injected(e) == Append(injected, [step |-> pc, exc |-> e])

\* The index of the first row of `rs` that the primary-key constraint
\* rejects when the rows are inserted in order after `st`; 0 if none.
RECURSIVE FirstViolation(_, _, _)
FirstViolation(st, rs, i) ==
    IF i > Len(rs) THEN 0
    ELSE IF StoredKey(Stored(rs[i].dict)) \in
              StoredKeys(st) \cup
              { StoredKey(Stored(rs[j].dict)) : j \in 1..(i - 1) }
         THEN i
         ELSE FirstViolation(st, rs, i + 1)

\* The row of the column defaults (schema_maker.py gives a column the
\* default of its DDL line)
DefaultRow == Row(S(""), I(0), None)

StoreRows(st, rs, n) == st \o [i \in 1..n |-> Stored(rs[i].dict)]

\* conn.execute(_class.__table__.insert(), params): the results
\* [exc, store] the backend can produce.
InsertResults(st, params) ==
    IF Len(params) = 0
    THEN \* no parameter set: nothing of the batch is stored; the backend
         \* may accept or refuse the statement, or run it once without
         \* parameters, which inserts one row of the column defaults
         { [exc |-> "none", store |-> st],
           [exc |-> "StatementError", store |-> st],
           IF FirstViolation(st, <<PyDict(DefaultRow)>>, 1) = 0
           THEN [exc |-> "none",
                 store |-> StoreRows(st, <<PyDict(DefaultRow)>>, 1)]
           ELSE [exc |-> "IntegrityError", store |-> st] }
    ELSE IF \E i \in 1..Len(params) : ~IsDict(params[i])
    THEN \* a parameter set that is not a row record is refused before
         \* anything is stored
         { [exc |-> "ParameterError", store |-> st] }
    ELSE LET v == FirstViolation(st, params, 1) IN
         IF v = 0
         THEN { [exc |-> "none", store |-> StoreRows(st, params, Len(params))] }
         ELSE \* a duplicate key: the rows before it are kept (autocommit
              \* engine) or rolled back (transactional engine)
              { [exc |-> "IntegrityError", store |-> st],
                [exc |-> "IntegrityError",
                 store |-> StoreRows(st, params, v - 1)] }

-----------------------------------------------------------------------------
(* try_until_allowed *)

\* The names bound at module level in data_loader.py: its imports (lines
\* 1-14) and the functions it defines.
ModuleNames ==
    { "login", "_zipfiles_on_pages", "files_in_zipfile", "generate_schema",
      "INDEX_DOC_STR", "locate", "create_engine", "OperationalError",
      "sessionmaker", "database_exists", "create_database", "logging",
      "BytesIO", "pd", "iterchunks", "get_class_by_tablename",
      "try_until_allowed", "make_pk", "pk_chunks", "write_to_db",
      "zipfile_to_db", "_download_patstat_to_db", "download_patstat_to_db" }

\* try_until_allowed with `except Exception` in place of
\* `except OperationalError`
try_until_allowed_any(o) ==
    IF o = "ok" THEN [ctl |-> "return", exc |-> "none"]
    ELSE IF "time" \in ModuleNames
         THEN [ctl |-> "continue", exc |-> "none"]
         ELSE [ctl |-> "raise", exc |-> "NameError"]

\* What one pass of the loop does with the outcome `o` of f(*args):
\* return the value, raise, or go round again.
try_until_allowed(o) ==
    IF o = "ok" THEN [ctl |-> "return", exc |-> "none"]
    ELSE IF o = "OperationalError"
         THEN \* logging.warning(...); time.sleep(5); continue
              IF "time" \in ModuleNames
              THEN [ctl |-> "continue", exc |-> "none"]
              ELSE [ctl |-> "raise", exc |-> "NameError"]
         ELSE [ctl |-> "raise", exc |-> o]

-----------------------------------------------------------------------------
(* write_to_db *)

Summary(st, e, after, executed, arg, inj, so, co) ==
    [ filter_pks |-> filter_pks, batch |-> batch, before |-> store,
      after |-> after, status |-> st, exc |-> e, executed |-> executed,
      arg |-> arg, injected |-> inj, session_open |-> so, conn_open |-> co ]

\* The function is left by an exception before the insert was reached.
Raise(e, inj) ==
    /\ status' = "raised"
    /\ exc' = e
    /\ pc' = "done"
    /\ injected' = inj
    /\ hist' = Append(hist, Summary("raised", e, store, FALSE, <<>>, inj,
                                    session_open, conn_open))

Goto(l, inj) ==
    /\ pc' = l
    /\ injected' = inj
    /\ UNCHANGED <<status, exc, hist>>

\* The backend raised no error of its own accord during call h.
Undisturbed(h) ==
    \A i \in 1..Len(h.injected) : h.injected[i].exc \notin BackendErrors

\* The caller invokes write_to_db(db_url, Base, _class, batch,
\* filter_pks=...); line 105 creates the engine (no connection yet).  The
\* caller passes the same batch again after a call that the backend did
\* not disturb.
CallWriteToDb ==
    /\ entry = "write_to_db"
    /\ pc \in {"idle", "done"}
    /\ Len(hist) < MaxCalls
    /\ \A k \in 1..Len(hist) : Undisturbed(hist[k])
    /\ rows' = [i \in 1..Len(batch) |-> PyDict(batch[i])]
    /\ pks' = <<>>
    /\ new_pks' = {}
    /\ offset' = 0
    /\ page_len' = -1
    /\ session_open' = FALSE
    /\ conn_open' = FALSE
    /\ status' = "running"
    /\ exc' = "none"
    /\ pc' = "database_exists"
    /\ injected' = <<>>
    /\ UNCHANGED <<entry, run_vars, filter_pks, backend_vars, batch, hist,
                   runs,
                   fn_vars, other>>

\* line 106
DatabaseExists ==
    /\ pc = "database_exists"
    /\ \E o \in Outcomes :
          IF o # "ok" THEN Raise(o, Injected(o))
          ELSE Goto(IF db_exists THEN "create_all" ELSE "create_database",
                    injected)
    /\ UNCHANGED <<entry, run_vars, local_vars, session_open, conn_open,
                   backend_vars, batch, runs,
                   fn_vars, other>>

\* line 107
CreateDatabase ==
    /\ pc = "create_database"
    /\ \E o \in Outcomes :
          IF o # "ok"
          THEN Raise(o, Injected(o)) /\ UNCHANGED db_exists
          ELSE Goto("create_all", injected) /\ db_exists' = TRUE
    /\ UNCHANGED <<entry, run_vars, local_vars, session_open, conn_open,
                   table_exists, store, batch, runs,
                   fn_vars, other>>

\* line 111: try_until_allowed(Base.metadata.create_all, engine)
CreateAll ==
    /\ pc = "create_all"
    /\ \E o \in Outcomes :
          LET t == try_until_allowed(o) IN
          CASE t.ctl = "return" ->
                 Goto(IF filter_pks THEN "sessionmaker" ELSE "connect",
                      injected)
                 /\ table_exists' = TRUE
            [] t.ctl = "continue" ->
                 Goto("create_all", Injected(o)) /\ UNCHANGED table_exists
            [] t.ctl = "raise" ->
                 Raise(t.exc, Injected(o)) /\ UNCHANGED table_exists
    /\ UNCHANGED <<entry, run_vars, local_vars, session_open, conn_open,
                   db_exists, store, batch, runs,
                   fn_vars, other>>

\* line 116: Session = try_until_allowed(sessionmaker, engine)
Sessionmaker ==
    /\ pc = "sessionmaker"
    /\ \E o \in Outcomes :
          LET t == try_until_allowed(o) IN
          CASE t.ctl = "return" -> Goto("Session", injected)
            [] t.ctl = "continue" -> Goto("sessionmaker", Injected(o))
            [] t.ctl = "raise" -> Raise(t.exc, Injected(o))
    /\ UNCHANGED <<entry, run_vars, local_vars, session_open, conn_open,
                   backend_vars, batch, runs,
                   fn_vars, other>>

\* lines 117-123: session = try_until_allowed(Session); then the keys of
\* the batch
Session ==
    /\ pc = "Session"
    /\ \E o \in Outcomes :
          LET t == try_until_allowed(o) IN
          CASE t.ctl = "return" ->
                 /\ session_open' = TRUE
                 /\ pks' = [i \in 1..Len(rows) |-> make_pk(rows[i].dict)]
                 /\ new_pks' = { make_pk(rows[i].dict) : i \in 1..Len(rows) }
                 /\ Goto("pk_chunks", injected)
            [] t.ctl = "continue" ->
                 /\ Goto("Session", Injected(o))
                 /\ UNCHANGED <<session_open, pks, new_pks>>
            [] t.ctl = "raise" ->
                 /\ UNCHANGED <<session_open, pks, new_pks>>
                 /\ Raise(t.exc, Injected(o))
    /\ UNCHANGED <<entry, run_vars, rows, filter_pks, offset, page_len,
                   conn_open, backend_vars, batch, runs,
                   fn_vars, other>>

\* A scan that finds no stored row
page_size_none(st, off, chunksize) == 0

\* The number of stored rows from offset `off` on, at most chunksize
page_size(st, off, chunksize) ==
    IF Len(st) <= off THEN 0
    ELSE IF Len(st) - off < chunksize THEN Len(st) - off ELSE chunksize

\* A page that lacks the key of its first row
pk_page_short(st, off, chunksize) ==
    [i \in 1..(page_size(st, off, chunksize) - 1) |->
        StoredKey(st[off + i + 1])]

\* line 88, q.limit(chunksize).offset(offset).all(): the keys of one page
pk_page(st, off, chunksize) ==
    [i \in 1..page_size(st, off, chunksize) |-> StoredKey(st[off + i])]

\* pk_chunks, lines 87-90, and the loop body of line 125: one page of the
\* stored keys is read and subtracted.  The generator ends when the page
\* just read was not full.
PkChunksPage ==
    /\ pc = "pk_chunks"
    /\ offset = 0 \/ page_len = PkChunkSize
    /\ \E o \in Outcomes :
          IF o # "ok"
          THEN /\ Raise(o, Injected(o))
               /\ UNCHANGED <<new_pks, offset, page_len>>
          ELSE LET page == pk_page(store, offset, PkChunkSize)
                   n == Len(page)
               IN /\ new_pks' = new_pks \ { page[i] : i \in 1..n }
                  /\ offset' = offset + PkChunkSize
                  /\ page_len' = n
                  /\ Goto(IF n = PkChunkSize THEN "pk_chunks" ELSE "filter",
                          injected)
    /\ UNCHANGED <<entry, run_vars, rows, filter_pks, pks, session_open,
                   conn_open, backend_vars, batch, runs,
                   fn_vars, other>>

\* lines 126-127: [rows for pk, row in zip(pks, rows) if pk in new_pks].
\* The element expression is `rows`, the whole list, not `row`.
RECURSIVE FilterNew(_, _, _, _)
FilterNew(ks, rs, new, i) ==
    IF i > Len(ks) \/ i > Len(rs) THEN <<>>
    ELSE (IF ks[i] \in new THEN <<PyList(rs)>> ELSE <<>>)
         \o FilterNew(ks, rs, new, i + 1)

\* lines 126-131: the rows are filtered and the session is closed
FilterRows ==
    /\ pc = "filter"
    /\ rows' = FilterNew(pks, rows, new_pks, 1)
    /\ session_open' = FALSE
    /\ Goto("connect", injected)
    /\ UNCHANGED <<entry, run_vars, filter_pks, pks, new_pks, offset,
                   page_len, conn_open, backend_vars, batch, runs,
                   fn_vars, other>>

\* line 134
Connect ==
    /\ pc = "connect"
    /\ \E o \in Outcomes :
          IF o # "ok"
          THEN Raise(o, Injected(o)) /\ UNCHANGED conn_open
          ELSE Goto("execute", injected) /\ conn_open' = TRUE
    /\ UNCHANGED <<entry, run_vars, local_vars, session_open, backend_vars,
                   batch, runs,
                   fn_vars, other>>

\* lines 135-138: the bulk insert; then the connection is closed and the
\* function returns None
Execute ==
    /\ pc = "execute"
    /\ \E o \in Outcomes :
          IF o # "ok"
          THEN Raise(o, Injected(o)) /\ UNCHANGED <<store, conn_open>>
          ELSE \E r \in InsertResults(store, rows) :
                 /\ store' = r.store
                 /\ conn_open' = (r.exc # "none")
                 /\ status' = IF r.exc = "none" THEN "returned" ELSE "raised"
                 /\ exc' = r.exc
                 /\ pc' = "done"
                 /\ injected' = IF r.exc = "none" THEN injected
                                 ELSE Injected(r.exc)
                 /\ hist' = Append(hist,
                        Summary(status', r.exc, r.store, TRUE, rows,
                                injected', session_open, conn_open'))
    /\ UNCHANGED <<entry, run_vars, local_vars, session_open, db_exists,
                   table_exists, batch, runs,
                   fn_vars, other>>

-----------------------------------------------------------------------------
(* Two processes running write_to_db against the same table *)

NoWriter == [none |-> TRUE]

\* What a process running write_to_db has of its own: its arguments,
\* locals, position, session and connection
Writer(id) ==
    [ id |-> id, pc |-> pc, status |-> status, exc |-> exc, rows |-> rows,
      filter_pks |-> filter_pks, pks |-> pks, new_pks |-> new_pks,
      offset |-> offset, page_len |-> page_len,
      session_open |-> session_open, conn_open |-> conn_open,
      batch |-> batch, injected |-> injected ]

\* The scheduler lets the other process run: between two calls into the
\* backend nothing orders the steps of two processes.
Switch ==
    /\ other # NoWriter
    /\ other' = Writer(3 - other.id)
    /\ pc' = other.pc
    /\ status' = other.status
    /\ exc' = other.exc
    /\ rows' = other.rows
    /\ filter_pks' = other.filter_pks
    /\ pks' = other.pks
    /\ new_pks' = other.new_pks
    /\ offset' = other.offset
    /\ page_len' = other.page_len
    /\ session_open' = other.session_open
    /\ conn_open' = other.conn_open
    /\ batch' = other.batch
    /\ injected' = other.injected
    /\ UNCHANGED <<entry, run_vars, backend_vars, hist, runs, fn_vars>>

-----------------------------------------------------------------------------
(* Calls: binding keyword arguments to a signature *)

\* def files_in_zipfile(bio, skip_table_prefixes=[], yield_zipfile_too=False)
files_in_zipfile_sig ==
    [ params |-> {"bio", "skip_table_prefixes", "yield_zipfile_too"},
      var_keyword |-> FALSE ]

\* def login(username, pwd)
login_sig == [ params |-> {"username", "pwd"}, var_keyword |-> FALSE ]

\* def _zipfiles_on_pages(download_suffix='', **credentials)
zipfiles_on_pages_sig == [ params |-> {"download_suffix"}, var_keyword |-> TRUE ]

\* Python raises TypeError for a keyword that names no parameter of a
\* function without **kwargs.
Binds(sig, keywords) == sig.var_keyword \/ keywords \subseteq sig.params

\* The keywords a function with **kwargs collects in it.
Collected(sig, keywords) == keywords \ sig.params

-----------------------------------------------------------------------------
(* File names: strings as sequences of characters *)

\* Python's `sub in s`
Contains(s, sub) ==
    \E i \in 1..(Len(s) - Len(sub) + 1) : SubSeq(s, i, i + Len(sub) - 1) = sub

\* `p in s` in place of s.startswith(p)
StartsWith_anywhere(s, p) == Contains(s, p)

\* Python's s.startswith(p)
StartsWith(s, p) == Len(p) <= Len(s) /\ SubSeq(s, 1, Len(p)) = p

FileNames == { <<"a", "_", "1">>, <<"b", "_", "1">>, <<"c", "_", "1">> }
\* A restart marker is None or a string
Chars(cs) == [chars |-> cs]
Markers == { Chars(<<"b">>), Chars(<<"a", "_">>), Chars(<<"z">>) }
SkipPrefixes == { <<"b">> }

\* files_in_zipfile, lines 67-75, for a valid archive: the names yielded
files_in_zipfile(names, skip_table_prefixes) ==
    SelectSeq(names,
              LAMBDA fn : ~(\E p \in skip_table_prefixes : StartsWith(fn, p)))

-----------------------------------------------------------------------------
(* zipfile_to_db *)

\* zipfile_to_db, lines 154-170, over the files the generator yields: the
\* files that reach line 161, each with the filter_pks its chunks are
\* written with.  `marker` is restart_filename, `start` the local of line 151.
RECURSIVE FileLoop(_, _, _, _, _)
FileLoop(fnames, marker, i, start, acc) ==
    IF i > Len(fnames) THEN acc
    ELSE LET restarting == (~start) /\ Contains(fnames[i], marker.chars)
             start2 == IF (~start) /\ restarting THEN TRUE ELSE start
         IN IF ~start2
            THEN FileLoop(fnames, marker, i + 1, start2, acc)
            ELSE FileLoop(fnames, marker, i + 1, start2,
                          Append(acc, [fname |-> fnames[i],
                                       filter_pks |-> restarting]))

\* The whole of zipfile_to_db on one archive.  Line 152 calls
\* files_in_zipfile(zipfile, skip_fnames=..., yield_zipfile_too=True).
zipfile_to_db_result(names, marker) ==
    IF ~Binds(files_in_zipfile_sig, {"skip_fnames", "yield_zipfile_too"})
    THEN [exc |-> "TypeError", loaded |-> <<>>]
    ELSE [exc |-> "none",
          loaded |-> FileLoop(files_in_zipfile(names, skip_fnames), marker,
                              1, marker = None, <<>>)]

Finish(r) ==
    /\ loaded' = r.loaded
    /\ status' = IF r.exc = "none" THEN "returned" ELSE "raised"
    /\ exc' = r.exc
    /\ pc' = "done"

RunSummary(r) ==
    [ restart_filename |-> restart_filename', exc |-> r.exc,
      loaded |-> r.loaded, store |-> store ]

\* The caller invokes zipfile_to_db(zipfile, db_url, Base,
\* skip_fnames=..., restart_filename=...).
ZipfileToDb ==
    /\ entry = "zipfile_to_db"
    /\ pc = "idle"
    /\ UNCHANGED restart_filename
    /\ LET r == zipfile_to_db_result(archives[1].files, restart_filename)
       IN Finish(r) /\ runs' = Append(runs, RunSummary(r))
    /\ UNCHANGED <<entry, archives, skip_fnames, local_vars, session_open,
                   conn_open, backend_vars, batch, injected, hist,
                   fn_vars, other>>

\* The caller runs zipfile_to_db again over the same archive, with the
\* restart marker set to the name of the archive's first file.
ZipfileToDbAgain ==
    /\ entry = "zipfile_to_db"
    /\ pc = "done"
    /\ Len(runs) < MaxRuns
    /\ Len(archives[1].files) > 0
    /\ restart_filename' = Chars(archives[1].files[1])
    /\ LET r == zipfile_to_db_result(archives[1].files, restart_filename')
       IN Finish(r) /\ runs' = Append(runs, RunSummary(r))
    /\ UNCHANGED <<entry, archives, skip_fnames, local_vars, session_open,
                   conn_open, backend_vars, batch, injected, hist,
                   fn_vars, other>>

-----------------------------------------------------------------------------
(* _download_patstat_to_db *)

\* The loop of lines 198-205 over the archives the generator yields; each
\* call of zipfile_to_db starts with its own `start`.
RECURSIVE ArchiveLoop(_, _)
ArchiveLoop(i, acc) ==
    IF i > Len(archives) THEN [exc |-> "none", loaded |-> acc]
    ELSE IF archives[i].index_doc THEN ArchiveLoop(i + 1, acc)
    ELSE LET r == zipfile_to_db_result(archives[i].files, restart_filename) IN
         IF r.exc # "none" THEN [exc |-> r.exc, loaded |-> acc \o r.loaded]
         ELSE ArchiveLoop(i + 1, acc \o r.loaded)

\* The caller invokes _download_patstat_to_db(...); line 198 creates the
\* generator _zipfiles_on_pages(start_from=start_from, **session_credentials)
\* without running it.
DownloadPatstatToDb ==
    /\ entry = "_download_patstat_to_db"
    /\ pc = "idle"
    /\ IF Binds(zipfiles_on_pages_sig, {"start_from", "username", "pwd"})
       THEN pc' = "_zipfiles_on_pages" /\ UNCHANGED <<status, exc, loaded>>
       ELSE Finish([exc |-> "TypeError", loaded |-> <<>>])
    /\ UNCHANGED <<entry, archives, restart_filename, skip_fnames,
                   local_vars, session_open, conn_open, backend_vars, batch,
                   injected, hist, runs,
                   fn_vars, other>>

\* The first step of the generator: utils.py line 25, login(**credentials),
\* with everything _zipfiles_on_pages collected in **credentials.
ZipfilesOnPages ==
    /\ pc = "_zipfiles_on_pages"
    /\ IF ~Binds(login_sig, Collected(zipfiles_on_pages_sig,
                                        {"start_from", "username", "pwd"}))
       THEN Finish([exc |-> "TypeError", loaded |-> <<>>])
       ELSE Finish(ArchiveLoop(1, <<>>))
    /\ UNCHANGED <<entry, archives, restart_filename, skip_fnames,
                   local_vars, session_open, conn_open, backend_vars, batch,
                   injected, hist, runs,
                   fn_vars, other>>

-----------------------------------------------------------------------------
(* get_class_by_tablename *)

MaxClasses == 2    \* values in the declarative class registry

\* Python's s.split("_")[0]: the characters before the first "_", scanned
\* from position i
RECURSIVE split_first(_, _)
split_first(s, i) ==
    IF i > Len(s) \/ s[i] = "_" THEN <<>>
    ELSE <<s[i]>> \o split_first(s, i + 1)

\* The values of Base._decl_class_registry: mapped classes, which have a
\* __tablename__, and the registry's module marker, which has none.
TableNames ==
    { <<"a", "_", "t">>, <<"a", "_", "u">>, <<"a", "b", "_", "t">>, <<"b">> }
RegistryValues ==
    { [tablename |-> t] : t \in TableNames } \cup { [module_marker |-> TRUE] }

\* get_class_by_tablename comparing the whole __tablename__ with tablename
RECURSIVE get_class_by_tablename_exact(_, _, _)
get_class_by_tablename_exact(Base, tablename, i) ==
    IF i > Len(Base) THEN [exc |-> "NameError", value |-> tablename]
    ELSE IF "tablename" \notin DOMAIN Base[i]
         THEN get_class_by_tablename_exact(Base, tablename, i + 1)
    ELSE IF Base[i].tablename = tablename
         THEN [exc |-> "none", value |-> Base[i]]
    ELSE get_class_by_tablename_exact(Base, tablename, i + 1)

\* get_class_by_tablename, lines 46-51, from the i-th registry value on:
\* the class returned, or the NameError raised with its argument
RECURSIVE get_class_by_tablename(_, _, _)
get_class_by_tablename(Base, tablename, i) ==
    IF i > Len(Base) THEN [exc |-> "NameError", value |-> tablename]
    ELSE IF "tablename" \notin DOMAIN Base[i]
         THEN \* except AttributeError: pass
              get_class_by_tablename(Base, tablename, i + 1)
    ELSE IF split_first(Base[i].tablename, 1) = tablename
         THEN [exc |-> "none", value |-> Base[i]]
    ELSE get_class_by_tablename(Base, tablename, i + 1)

\* What a direct call leaves behind: the value returned, or the exception
\* with its argument.
Return(r) ==
    /\ result' = r
    /\ status' = IF r.exc = "none" THEN "returned" ELSE "raised"
    /\ exc' = r.exc
    /\ pc' = "done"
    /\ UNCHANGED <<entry, args, run_vars, local_vars, session_open,
                   conn_open, backend_vars, batch, injected, hist, runs,
                   other>>

\* The caller resolves the table of a file as lines 162-163 do:
\* get_class_by_tablename(Base, fname.split("_")[0])
GetClassByTablename ==
    /\ entry = "get_class_by_tablename"
    /\ pc = "idle"
    /\ Return(get_class_by_tablename(args.Base, split_first(args.fname, 1), 1))

-----------------------------------------------------------------------------
(* files_in_zipfile on a byte stream *)

\* A byte stream is a zip archive with its members in listing order, or
\* something ZipFile(bio) raises BadZipFile for.
NotAZip == [valid |-> FALSE]
Zip(members) == [valid |-> TRUE, infolist |-> members]
Member(fn, content) == [filename |-> fn, content |-> content]

\* files_in_zipfile, lines 59-77: the items the generator yields
files_in_zipfile_gen(bio, skip_table_prefixes, yield_zipfile_too) ==
    IF ~bio.valid
    THEN \* except BadZipFile: bio.close(); return
         <<>>
    ELSE LET kept == SelectSeq(bio.infolist,
                        LAMBDA z : ~(\E p \in skip_table_prefixes :
                                        StartsWith(z.filename, p)))
         IN [i \in 1..Len(kept) |->
                IF yield_zipfile_too
                THEN <<kept[i].filename, kept[i].content, "zf">>
                ELSE <<kept[i].filename, kept[i].content>>]

\* The caller consumes files_in_zipfile(bio, skip_table_prefixes,
\* yield_zipfile_too).
FilesInZipfile ==
    /\ entry = "files_in_zipfile"
    /\ pc = "idle"
    /\ Return([exc |-> "none",
               value |-> files_in_zipfile_gen(args.bio,
                                              args.skip_table_prefixes,
                                              args.yield_zipfile_too)])

-----------------------------------------------------------------------------
(* pd.read_csv(f, chunksize=...): the chunked reader *)

MaxCsvRows == 3    \* data rows in one CSV file
MaxChunk == 2      \* iterchunks' chunksize (1000 in the code), scaled

\* The columns of the CSV files of the table model
Columns == {"k1", "k2", "d"}

\* A cell is the text between two separators.
DigitChars == {"0", "1", "2", "3", "4", "5", "6", "7", "8", "9"}

DigitValue(c) ==
    CASE c = "0" -> 0 [] c = "1" -> 1 [] c = "2" -> 2 [] c = "3" -> 3
      [] c = "4" -> 4 [] c = "5" -> 5 [] c = "6" -> 6 [] c = "7" -> 7
      [] c = "8" -> 8 [] c = "9" -> 9

\* The number a text of digits denotes, read left to right
RECURSIVE ParseInt(_, _)
ParseInt(cs, acc) ==
    IF cs = <<>> THEN acc
    ELSE ParseInt(Tail(cs), 10 * acc + DigitValue(Head(cs)))

\* The string made of the characters cs
RECURSIVE Join(_)
Join(cs) == IF cs = <<>> THEN "" ELSE Head(cs) \o Join(Tail(cs))

\* The reader takes an empty field and the text NA (among others) for a
\* missing value.
IsMissing(cs) == cs = <<>> \/ cs = <<"N", "A">>
IsIntText(cs) == cs # <<>> /\ \A i \in 1..Len(cs) : cs[i] \in DigitChars

\* The dtype the reader infers for a column from the cells of one chunk
column_dtype(texts) ==
    IF \A i \in 1..Len(texts) : IsMissing(texts[i]) THEN "float64"
    ELSE IF \A i \in 1..Len(texts) : IsMissing(texts[i]) \/ IsIntText(texts[i])
         THEN IF \E i \in 1..Len(texts) : IsMissing(texts[i])
              THEN "float64" ELSE "int64"
    ELSE "object"

cell_value(dtype, cs) ==
    IF IsMissing(cs) THEN NaN
    ELSE CASE dtype = "int64" -> I(ParseInt(cs, 0))
           [] dtype = "float64" -> F(ParseInt(cs, 0))
           [] dtype = "object" -> S(Join(cs))

\* One chunk: the data frame of the lines `lines`, as its dtypes and rows
read_chunk(lines) ==
    LET dt == [c \in Columns |->
                  column_dtype([i \in 1..Len(lines) |-> lines[i][c]])]
    IN [ dtypes |-> dt,
         rows |-> [i \in 1..Len(lines) |->
                      [c \in Columns |-> cell_value(dt[c], lines[i][c])]] ]

\* The chunks of the data lines `lines`, at most chunksize lines each
RECURSIVE read_csv_chunks(_, _)
read_csv_chunks(lines, chunksize) ==
    IF lines = <<>> THEN <<>>
    ELSE LET n == IF Len(lines) < chunksize THEN Len(lines) ELSE chunksize
         IN <<read_chunk(SubSeq(lines, 1, n))>>
            \o read_csv_chunks(SubSeq(lines, n + 1, Len(lines)), chunksize)

\* pd.read_csv(f, chunksize=chunksize) over a file of a header line and
\* the data lines `lines`.  Whether a file without data lines gives no
\* chunk or one empty chunk depends on the reader: empty_chunk.
read_csv(lines, chunksize, empty_chunk) ==
    IF lines = <<>> /\ empty_chunk THEN <<read_chunk(<<>>)>>
    ELSE read_csv_chunks(lines, chunksize)

\* chunk.iterrows(): each row as a Series, whose single dtype is float64
\* when the frame has int64 and float64 columns only and one is float64
iterrows(chunk) ==
    LET upcast == /\ \A c \in Columns : chunk.dtypes[c] # "object"
                  /\ \E c \in Columns : chunk.dtypes[c] = "float64"
    IN [i \in 1..Len(chunk.rows) |->
           [c \in Columns |->
               IF upcast /\ IsInt(chunk.rows[i][c])
               THEN F(chunk.rows[i][c].int) ELSE chunk.rows[i][c]]]

\* pd.isnull(v) for a scalar
isnull(v) == v = NaN \/ v = None

-----------------------------------------------------------------------------
(* iterchunks *)

\* line 31 without the test for a missing value
normalise_keep(v) == v

\* line 31: v if not pd.isnull(v) else None
normalise(v) == IF ~isnull(v) THEN v ELSE None

\* lines 28-34: the batch yielded for one chunk
chunk_rows(chunk) ==
    LET rs == iterrows(chunk)
    IN [i \in 1..Len(rs) |-> [c \in Columns |-> normalise(rs[i][c])]]

\* lines 27-34 for the items of files_in_zipfile(zio) from the i-th on:
\* the batches yielded, in order
RECURSIVE iterchunks_files(_, _, _, _)
iterchunks_files(items, i, chunksize, empty_chunk) ==
    IF i > Len(items) THEN <<>>
    ELSE LET chunks == read_csv(items[i][2], chunksize, empty_chunk)
         IN [k \in 1..Len(chunks) |-> chunk_rows(chunks[k])]
            \o iterchunks_files(items, i + 1, chunksize, empty_chunk)

\* iterchunks(zipped_csv, chunksize), lines 26-34
iterchunks(zipped_csv, chunksize, empty_chunk) ==
    iterchunks_files(files_in_zipfile_gen(zipped_csv, {}, FALSE), 1,
                     chunksize, empty_chunk)

\* The caller consumes iterchunks(zipped_csv, chunksize=chunksize).
Iterchunks ==
    /\ entry = "iterchunks"
    /\ pc = "idle"
    /\ \E empty_chunk \in BOOLEAN :
          Return([exc |-> "none",
                  value |-> iterchunks(args.zipped_csv, args.chunksize,
                                       empty_chunk)])

-----------------------------------------------------------------------------
(* schema_maker.py: lines of a CREATE TABLE script *)

MaxLines == 4      \* lines in one script

\* A line is the sequence of its pieces: a leading tab, a bracketed name
\* [..], a parenthesised length (..) directly behind a bracketed type, a
\* quoted default '..', or other text.  Bracketed names follow each other
\* after one blank.
Tab == [tab |-> TRUE]
Br(cs) == [br |-> cs]
Paren(cs) == [paren |-> cs]
Quoted(cs) == [quoted |-> cs]
Text(s) == [text |-> s]

IsBr(t) == DOMAIN t = {"br"}
IsParen(t) == DOMAIN t = {"paren"}
IsQuoted(t) == DOMAIN t = {"quoted"}

START_PATTERN == Text("CREATE TABLE")
END_PATTERN == Text("PRIMARY KEY CLUSTERED")

LowerLetters ==
    << "a", "b", "c", "d", "e", "f", "g", "h", "i", "j", "k", "l", "m",
       "n", "o", "p", "q", "r", "s", "t", "u", "v", "w", "x", "y", "z" >>
UpperLetters ==
    << "A", "B", "C", "D", "E", "F", "G", "H", "I", "J", "K", "L", "M",
       "N", "O", "P", "Q", "R", "S", "T", "U", "V", "W", "X", "Y", "Z" >>

\* str.lower() and str.upper(), on the characters of a string
lower(cs) ==
    [i \in 1..Len(cs) |->
        IF \E k \in 1..26 : UpperLetters[k] = cs[i]
        THEN LowerLetters[CHOOSE k \in 1..26 : UpperLetters[k] = cs[i]]
        ELSE cs[i]]
upper(cs) ==
    [i \in 1..Len(cs) |->
        IF \E k \in 1..26 : LowerLetters[k] = cs[i]
        THEN UpperLetters[CHOOSE k \in 1..26 : LowerLetters[k] = cs[i]]
        ELSE cs[i]]

\* str.isdigit()
isdigit(cs) == cs # <<>> /\ \A i \in 1..Len(cs) : cs[i] \in DigitChars

\* The regular expression \w+
IsWord(cs) ==
    /\ cs # <<>>
    /\ \A i \in 1..Len(cs) :
          \/ cs[i] \in DigitChars \cup {"_"}
          \/ \E k \in 1..26 : cs[i] \in {LowerLetters[k], UpperLetters[k]}

\* re.findall: the places of a line where a pattern matches, in order,
\* `hits` being the set of those places
findall(hits, line) ==
    SelectSeq([i \in 1..Len(line) |-> i], LAMBDA i : i \in hits)

\* SQL_FIELD_REGEX_2 = "\[(\w+)\] \[(\w+)\]"
SQL_FIELD_REGEX_2(line, i) ==
    /\ i + 1 <= Len(line)
    /\ IsBr(line[i]) /\ IsWord(line[i].br)
    /\ IsBr(line[i + 1]) /\ IsWord(line[i + 1].br)

\* SQL_FIELD_REGEX_1 = "\[(\w+)\] \[(\w+)\]\((\w+)\)"
SQL_FIELD_REGEX_1(line, i) ==
    /\ SQL_FIELD_REGEX_2(line, i)
    /\ i + 2 <= Len(line)
    /\ IsParen(line[i + 2]) /\ IsWord(line[i + 2].paren)

\* SQL_FIELD_DEFAULT = "('.*?')"
SQL_FIELD_DEFAULT(line, i) == IsQuoted(line[i])

\* SQL_FIELD_PKEY = "\[(\w+)\]"
SQL_FIELD_PKEY(line, i) == IsBr(line[i]) /\ IsWord(line[i].br)

\* _get_field_data, lines 39-60: the tuple returned or the error raised
_get_field_data(sql_line) ==
    LET results == findall({ i \in 1..Len(sql_line) : SQL_FIELD_REGEX_1(sql_line, i) },
                           sql_line)
        results2 == findall({ i \in 1..Len(sql_line) : SQL_FIELD_REGEX_2(sql_line, i) },
                           sql_line)
        defaults == findall({ i \in 1..Len(sql_line) : SQL_FIELD_DEFAULT(sql_line, i) },
                           sql_line)
        at == IF Len(results) = 0 THEN results2[1] ELSE results[1]
        field_name == sql_line[at].br
        field_type == sql_line[at + 1].br
        text == sql_line[at + 2].paren
        field_length == IF Len(results) = 0 THEN None
                        ELSE IF isdigit(text) THEN I(ParseInt(text, 0))
                        ELSE Chars(text)
        quoted == sql_line[defaults[1]].quoted
        default_value == IF Len(defaults) = 0 THEN None
                         ELSE IF isdigit(quoted) THEN I(ParseInt(quoted, 0))
                         ELSE S("'" \o Join(quoted) \o "'")
    IN IF Len(results) = 0 /\ Len(results2) = 0
       THEN [exc |-> "IndexError", value |-> None]
       ELSE IF Len(results) # 0
               /\ ~(IsInt(field_length) \/ lower(text) = <<"m", "a", "x">>)
       THEN [exc |-> "ValueError", value |-> S("Unexpected field length")]
       ELSE [exc |-> "none",
             value |-> << Join(lower(field_name)), field_type,
                          field_length, default_value >>]

\* _get_pkey_field, lines 70-71
_get_pkey_field(sql_line) ==
    LET results == findall({ i \in 1..Len(sql_line) : SQL_FIELD_PKEY(sql_line, i) },
                           sql_line)
    IN IF Len(results) = 0 THEN [exc |-> "IndexError", value |-> None]
       ELSE [exc |-> "none", value |-> sql_line[results[1]].br]

-----------------------------------------------------------------------------
(* parse_sql_table_fields and generate_model_text *)

\* `piece in line`
HasText(line, piece) == \E i \in 1..Len(line) : line[i] = piece

\* field_data[field_name] = data on a dict kept in insertion order
SetItem(field_data, field_name, data) ==
    IF \E i \in 1..Len(field_data) : field_data[i].name = field_name
    THEN [i \in 1..Len(field_data) |->
             IF field_data[i].name = field_name
             THEN [name |-> field_name, data |-> data] ELSE field_data[i]]
    ELSE Append(field_data, [name |-> field_name, data |-> data])

\* parse_sql_table_fields, lines 110-130: the loop from the i-th line on
RECURSIVE ParseLines(_, _, _, _, _, _)
ParseLines(lines, i, start, end, field_data, pkeys) ==
    IF i > Len(lines)
    THEN [exc |-> "none", field_data |-> field_data, pkeys |-> pkeys]
    ELSE LET line == lines[i] IN
    IF HasText(line, START_PATTERN)
    THEN ParseLines(lines, i + 1, TRUE, end, field_data, pkeys)
    ELSE IF HasText(line, END_PATTERN)
    THEN ParseLines(lines, i + 1, FALSE, TRUE, field_data, pkeys)
    ELSE IF ~(line # <<>> /\ line[1] = Tab)
    THEN ParseLines(lines, i + 1, start, end, field_data, pkeys)
    ELSE IF ~(start \/ end)
    THEN ParseLines(lines, i + 1, start, end, field_data, pkeys)
    ELSE LET f == _get_field_data(line)
             k == _get_pkey_field(line)
             field_data2 ==
                 IF start
                 THEN SetItem(field_data, f.value[1],
                              <<f.value[2], f.value[3], f.value[4]>>)
                 ELSE field_data
             pkeys2 == IF end THEN Append(pkeys, Join(lower(k.value)))
                       ELSE pkeys
         IN IF start /\ f.exc # "none"
            THEN [exc |-> f.exc, field_data |-> <<>>, pkeys |-> <<>>]
            ELSE IF end /\ k.exc # "none"
            THEN [exc |-> k.exc, field_data |-> <<>>, pkeys |-> <<>>]
            ELSE ParseLines(lines, i + 1, start, end, field_data2, pkeys2)

\* parse_sql_table_fields without the test of lines 132-133
parse_sql_table_fields_any(sql_table_text) ==
    ParseLines(sql_table_text, 1, FALSE, FALSE, <<>>, <<>>)

\* parse_sql_table_fields, lines 106-135
parse_sql_table_fields(sql_table_text) ==
    LET r == ParseLines(sql_table_text, 1, FALSE, FALSE, <<>>, <<>>)
    IN IF r.exc = "none" /\ Len(r.pkeys) = 0
       THEN [exc |-> "ValueError", field_data |-> <<>>, pkeys |-> <<>>]
       ELSE r

\* `x in xs` for a list
InList(x, xs) == \E i \in 1..Len(xs) : xs[i] = x

default_field_length == 100000

\* generate_model_text, lines 142-156: the Column(...) lines of the model
generate_model_text(field_data, pkeys, field_length_default) ==
    [i \in 1..Len(field_data) |->
        LET field_type == field_data[i].data[1]
            field_length == field_data[i].data[2]
        IN [ name |-> field_data[i].name,
             type |-> IF upper(field_type) = <<"T", "I", "N", "Y", "I", "N", "T">>
                      THEN "SMALLINT" ELSE Join(upper(field_type)),
             length |-> IF /\ DOMAIN field_length = {"chars"}
                           /\ lower(field_length.chars) = <<"m", "a", "x">>
                        THEN I(field_length_default) ELSE field_length,
             primary_key |-> InList(field_data[i].name, pkeys),
             default |-> field_data[i].data[3] ]]

\* The caller parses a script and generates the model from what the
\* parser returns, as lines 184 and 186 do.
ParseSqlTableFields ==
    /\ entry = "parse_sql_table_fields"
    /\ pc = "idle"
    /\ LET r == parse_sql_table_fields(args.sql_table_text)
       IN Return([ exc |-> r.exc,
                   value |-> IF r.exc # "none" THEN None
                             ELSE [ field_data |-> r.field_data,
                                    pkeys |-> r.pkeys,
                                    model |-> generate_model_text(
                                                 r.field_data, r.pkeys,
                                                 default_field_length) ] ])

\* The caller passes one line to _get_field_data.
GetFieldData ==
    /\ entry = "_get_field_data"
    /\ pc = "idle"
    /\ Return(_get_field_data(args.sql_line))

-----------------------------------------------------------------------------
(* Initial states and the next-state relation *)

\* Sequences over S of length at most n
SeqsUpTo(A, n) == UNION { [1..k -> A] : k \in 0..n }

NoRepeat(s) == \A i, j \in 1..Len(s) : s[i] = s[j] => i = j

Batches == SeqsUpTo(RowRecords, MaxBatch)

\* A table holds stored rows with pairwise distinct primary keys.
Stores ==
    { st \in SeqsUpTo({ Stored(r) : r \in RowRecords }, MaxStored) :
        \A i, j \in 1..Len(st) : StoredKey(st[i]) = StoredKey(st[j]) => i = j }

\* The members of a zip archive have distinct names.
FileLists == { fs \in SeqsUpTo(FileNames, MaxFiles) : NoRepeat(fs) }

\* An archive: its file names in listing order and the names of the
\* per-file entries that are not themselves zip archives, or the index
\* document of the download page.
Archive(fs, bad) == [index_doc |-> FALSE, files |-> fs, not_zip |-> bad]
IndexDoc == [index_doc |-> TRUE, files |-> <<>>, not_zip |-> {}]

Archives == { Archive(fs, {}) : fs \in FileLists } \cup { IndexDoc }

\* The archives with at most one entry that is not a zip archive
ArchivesWithStray ==
    { Archive(fs, bad) :
        fs \in FileLists,
        bad \in { {} } \cup { {fn} : fn \in FileNames } }

IdleLocals ==
    /\ rows = <<>>
    /\ pks = <<>>
    /\ new_pks = {}
    /\ offset = 0
    /\ page_len = -1
    /\ session_open = FALSE
    /\ conn_open = FALSE
    /\ injected = <<>>
    /\ hist = <<>>
    /\ runs = <<>>
    /\ loaded = <<>>
    /\ pc = "idle"
    /\ status = "running"
    /\ exc = "none"
    /\ result = None

InitWrite ==
    /\ entry = "write_to_db"
    /\ args = None
    /\ batch \in Batches
    /\ filter_pks \in BOOLEAN
    /\ store \in Stores
    /\ db_exists \in BOOLEAN
    /\ table_exists \in BOOLEAN
    /\ (Len(store) > 0 => table_exists)
    /\ (table_exists => db_exists)
    /\ archives = <<>>
    /\ restart_filename = None
    /\ skip_fnames = {}

InitRun ==
    /\ \/ /\ entry = "zipfile_to_db"
          /\ archives \in { <<a>> : a \in { x \in ArchivesWithStray :
                                              \A fn \in x.not_zip :
                                                \E i \in 1..Len(x.files) :
                                                  x.files[i] = fn } }
       \/ /\ entry = "_download_patstat_to_db"
          /\ archives \in SeqsUpTo(Archives, MaxArchives)
    /\ restart_filename \in Markers \cup {None}
    /\ skip_fnames \in SUBSET SkipPrefixes
    /\ args = None
    /\ batch = <<>>
    /\ filter_pks = FALSE
    /\ store = <<>>
    /\ db_exists = TRUE
    /\ table_exists = TRUE

\* The other functions run against no backend and no archive run.
NoRun ==
    /\ archives = <<>>
    /\ restart_filename = None
    /\ skip_fnames = {}
    /\ batch = <<>>
    /\ filter_pks = FALSE
    /\ store = <<>>
    /\ db_exists = TRUE
    /\ table_exists = TRUE

Registries == SeqsUpTo(RegistryValues, MaxClasses)

InitGetClass ==
    /\ entry = "get_class_by_tablename"
    /\ args \in [ Base : Registries,
                  fname : FileNames \cup { <<"a", "b", "_", "1">> } ]
    /\ NoRun

\* The lines of a CSV file after its header, each the texts of its cells
CsvLine(k1, k2, d) == [k1 |-> k1, k2 |-> k2, d |-> d]
CsvLines ==
    { CsvLine(k1, k2, d) : k1 \in { <<"0", "0", "7">>, <<"x">>, <<"N", "A">> },
                           k2 \in { <<"1">>, <<>> },
                           d \in { <<"y">>, <<"5">> } }
Csvs == SeqsUpTo(CsvLines, MaxCsvRows)

\* A per-file entry of an archive: a zip of one CSV file (or of two, or of
\* none), or something that is no zip
ZippedCsvs ==
    { NotAZip, Zip(<<>>) }
    \cup { Zip(<<Member(<<"t", "1">>, c)>>) : c \in Csvs }
    \cup { Zip(<<Member(<<"t", "1">>, c),
                 Member(<<"t", "2">>, <<CsvLine(<<"x">>, <<"1">>, <<"y">>)>>)>>) :
             c \in { x \in Csvs : Len(x) <= 1 } }

InitIterchunks ==
    /\ entry = "iterchunks"
    /\ args \in [ zipped_csv : ZippedCsvs, chunksize : 1..MaxChunk ]
    /\ NoRun

\* The lines a script is made of
FieldLine(name, type, rest) == <<Tab, Br(name), Br(type)>> \o rest
KeyLine(name) == <<Tab, Br(name), Text("ASC")>>

ScriptLines ==
    { <<START_PATTERN>>,
      <<Text("CONSTRAINT"), Br(<<"p", "k">>), END_PATTERN>>,
      <<Text("(")>>,
      <<Tab, Text("GO")>>,
      FieldLine(<<"I", "d">>, <<"i", "n", "t">>, <<Text("NOT NULL")>>),
      FieldLine(<<"a", "b">>, <<"c", "h", "a", "r">>, <<Paren(<<"5", "0">>)>>),
      FieldLine(<<"a", "b">>, <<"c", "h", "a", "r">>, <<Paren(<<"a", "b">>)>>),
      KeyLine(<<"I", "d">>),
      KeyLine(<<"z", "z">>) }

\* The lines _get_field_data is given
FieldLines ==
    { FieldLine(<<"I", "d">>, <<"i", "n", "t">>, <<Text("NOT NULL")>>),
      FieldLine(<<"I", "d">>, <<"t", "i", "n", "y", "i", "n", "t">>,
                <<Text("DEFAULT"), Quoted(<<"0">>)>>),
      FieldLine(<<"a", "b">>, <<"c", "h", "a", "r">>,
                <<Paren(<<"2">>), Text("DEFAULT"), Quoted(<<>>)>>),
      KeyLine(<<"I", "d">>),
      <<Tab, Text("GO")>> }
    \cup { FieldLine(<<"a", "b">>, <<"c", "h", "a", "r">>, <<Paren(l)>>) :
             l \in { <<"5", "0">>, <<"0", "0", "7">>, <<"m", "a", "x">>,
                     <<"M", "A", "X">>, <<"M", "a", "x">>, <<"a", "b">>,
                     <<"1", "0", ",", "2">>, <<"-", "1">>, <<>> } }

\* The byte streams files_in_zipfile is given: archives of empty members
Bios ==
    { NotAZip }
    \cup { Zip([i \in 1..Len(fs) |-> Member(fs[i], <<>>)]) : fs \in FileLists }

InitFiles ==
    /\ entry = "files_in_zipfile"
    /\ args \in [ bio : Bios,
                  skip_table_prefixes :
                      SUBSET { <<"b">>, <<"1">>, <<"a", "_">> },
                  yield_zipfile_too : BOOLEAN ]
    /\ NoRun

InitParse ==
    /\ entry = "parse_sql_table_fields"
    /\ args \in [ sql_table_text : SeqsUpTo(ScriptLines, MaxLines) ]
    /\ NoRun

InitFieldData ==
    /\ entry = "_get_field_data"
    /\ args \in [ sql_line : FieldLines ]
    /\ NoRun

Init ==
    /\ IdleLocals
    /\ other = NoWriter
    /\ (InitWrite \/ InitRun \/ InitGetClass \/ InitIterchunks
        \/ InitFiles \/ InitParse \/ InitFieldData)

Next ==
    \/ CallWriteToDb
    \/ DatabaseExists
    \/ CreateDatabase
    \/ CreateAll
    \/ Sessionmaker
    \/ Session
    \/ PkChunksPage
    \/ FilterRows
    \/ Connect
    \/ Execute
    \/ ZipfileToDb
    \/ ZipfileToDbAgain
    \/ DownloadPatstatToDb
    \/ ZipfilesOnPages
    \/ GetClassByTablename
    \/ FilesInZipfile
    \/ Iterchunks
    \/ ParseSqlTableFields
    \/ GetFieldData

Spec == Init /\ [][Next]_vars

\* One process alone, or two processes given the same batch with
\* deduplication enabled, against a table of at most one row
RaceBatches ==
    SeqsUpTo(RowRecords, 1)
    \cup { << Row(S("0001"), I(0), S("x")), Row(I(7), I(1), S("x")) >> }

InitRace ==
    /\ IdleLocals
    /\ InitWrite
    /\ \/ other = NoWriter
       \/ /\ filter_pks
          /\ db_exists /\ table_exists
          /\ batch \in RaceBatches
          /\ Len(store) <= 1
          /\ other = Writer(2)

NextRace ==
    \/ CallWriteToDb
    \/ DatabaseExists
    \/ CreateDatabase
    \/ CreateAll
    \/ Sessionmaker
    \/ Session
    \/ PkChunksPage
    \/ FilterRows
    \/ Connect
    \/ Execute
    \/ Switch

SpecRace == InitRace /\ [][NextRace]_vars

-----------------------------------------------------------------------------
(* What the specification expects of a run *)

Matches(fs, marker) == { i \in 1..Len(fs) : Contains(fs[i], marker.chars) }

FirstMatch(fs, marker) ==
    CHOOSE i \in Matches(fs, marker) : \A j \in Matches(fs, marker) : i <= j

\* Restart-window semantics over the file list fs: the files loaded, in
\* order, each with the deduplication flag of its writes.
RestartWindow(fs, marker) ==
    IF marker = None
    THEN [k \in 1..Len(fs) |-> [fname |-> fs[k], filter_pks |-> FALSE]]
    ELSE IF Matches(fs, marker) = {} THEN <<>>
    ELSE LET m == FirstMatch(fs, marker) IN
         [k \in 1..(Len(fs) - m + 1) |->
             [fname |-> fs[m + k - 1], filter_pks |-> (k = 1)]]

OnSkipList(fn) == \E p \in skip_fnames : StartsWith(fn, p)

\* The files of the data archives, in download order
RECURSIVE DataFiles(_)
DataFiles(i) ==
    IF i > Len(archives) THEN <<>>
    ELSE (IF archives[i].index_doc THEN <<>> ELSE archives[i].files)
         \o DataFiles(i + 1)

\* A primary-key tuple whose every component is empty, null or zero
NullKey(pk) == \A i \in 1..Len(pk) : pk[i] \in {S(""), I(0), None}

TimesStored(st, pk) == Cardinality({ i \in 1..Len(st) : StoredKey(st[i]) = pk })

-----------------------------------------------------------------------------
(* The claims *)

\* C1: in a finished zipfile_to_db run with a restart marker that some file
\* name contains (empty skip list), the files before the first matching
\* file were skipped, the first matching file was written with
\* filter_pks true and every later file with filter_pks false.
C1_RestartWindow ==
    ( /\ entry = "zipfile_to_db"
      /\ Len(runs) >= 1
      /\ skip_fnames = {}
      /\ runs[1].restart_filename # None
      /\ Matches(archives[1].files, runs[1].restart_filename) # {} )
    => runs[1].loaded =
          RestartWindow(archives[1].files, runs[1].restart_filename)

\* C2: when write_to_db runs with filter_pks true, the list passed to the
\* insert holds exactly the row records of the batch whose make_pk is not
\* among the keys stored before the call.
C2_InsertsExactlyNewRows ==
    \A k \in 1..Len(hist) :
        (hist[k].filter_pks /\ hist[k].executed)
        => hist[k].arg =
              SelectSeq([i \in 1..Len(batch) |-> PyDict(batch[i])],
                        LAMBDA d : make_pk(d.dict)
                                     \notin StoredKeys(hist[k].before))

\* C3: write_to_db never inserts a row whose primary-key tuple has every
\* component empty, null or zero, with or without deduplication.
C3_NullKeyNeverInserted ==
    \A k \in 1..Len(hist) :
        /\ \A i \in 1..Len(hist[k].arg) :
              IsDict(hist[k].arg[i]) => ~NullKey(make_pk(hist[k].arg[i].dict))
        /\ \A i \in (Len(hist[k].before) + 1)..Len(hist[k].after) :
              ~NullKey(StoredKey(hist[k].after[i]))

\* C4: after two calls of write_to_db on the same batch with filter_pks
\* true, every primary key of the batch is stored exactly once, and the
\* second call stored nothing.
C4_TwiceStoresOnce ==
    ( /\ Len(hist) = 2
      /\ filter_pks
      /\ Undisturbed(hist[1])
      /\ Undisturbed(hist[2]) )
    => /\ \A i \in 1..Len(batch) : TimesStored(store, make_pk(batch[i])) = 1
       /\ hist[2].after = hist[2].before

\* C5: zipfile_to_db run once without a restart marker and then again with
\* the restart marker set to the first file's name: both runs complete and
\* the table holds after the second run what it held after the first.
C5_RerunEquivalent ==
    ( /\ entry = "zipfile_to_db"
      /\ Len(runs) = 2
      /\ runs[1].restart_filename = None )
    => /\ runs[1].exc = "none"
       /\ runs[2].exc = "none"
       /\ runs[2].store = runs[1].store

\* C6: a finished zipfile_to_db run has loaded no file whose name starts
\* with a skip prefix, and has loaded every other file that the restart
\* state lets through.
C6_SkipPrecedence ==
    ( entry = "zipfile_to_db" /\ Len(runs) >= 1 )
    => /\ \A k \in 1..Len(runs[1].loaded) : ~OnSkipList(runs[1].loaded[k].fname)
       /\ { runs[1].loaded[k].fname : k \in 1..Len(runs[1].loaded) } =
          { f \in { w.fname : w \in
                      { RestartWindow(archives[1].files,
                                      runs[1].restart_filename)[k] :
                          k \in 1..Len(RestartWindow(archives[1].files,
                                                     runs[1].restart_filename)) } } :
              ~OnSkipList(f) }

\* C7: in a finished zipfile_to_db run every file that is not on the skip
\* list was skipped, loaded with deduplication or loaded without it exactly
\* as with an empty skip list.
C7_SkipListIndependent ==
    ( entry = "zipfile_to_db" /\ Len(runs) >= 1 )
    => runs[1].loaded =
          SelectSeq(RestartWindow(archives[1].files, runs[1].restart_filename),
                    LAMBDA w : ~OnSkipList(w.fname))

\* C8: a finished _download_patstat_to_db run over several archives, with a
\* restart marker that a file of one of them contains (empty skip list),
\* has returned, having skipped every file before the restart file, loaded
\* the restart file with deduplication and every later file of every
\* archive without.
C8_RestartAcrossArchives ==
    ( /\ entry = "_download_patstat_to_db"
      /\ pc = "done"
      /\ skip_fnames = {}
      /\ restart_filename # None
      /\ Matches(DataFiles(1), restart_filename) # {} )
    => /\ status = "returned"
       /\ loaded = RestartWindow(DataFiles(1), restart_filename)

\* C9: a write_to_db call during which the backend raised only
\* OperationalError is not aborted: it returns after writing the batch.
C9_TransientRetried ==
    \A k \in 1..Len(hist) :
        ( /\ hist[k].injected # <<>>
          /\ \A i \in 1..Len(hist[k].injected) :
                hist[k].injected[i].exc = "OperationalError" )
        => hist[k].status = "returned"

\* C10: an error other than OperationalError leaves write_to_db at once,
\* as that error, with nothing tried after it; and write_to_db returns
\* normally only after executing the insert, with every row of the batch
\* in the table.
C10_NonTransientPropagates ==
    /\ status = "running"
       => \A i \in 1..Len(injected) : injected[i].exc = "OperationalError"
    /\ \A k \in 1..Len(hist) :
          /\ \A i \in 1..Len(hist[k].injected) :
                hist[k].injected[i].exc # "OperationalError"
                => /\ i = Len(hist[k].injected)
                   /\ hist[k].status = "raised"
                   /\ hist[k].exc = hist[k].injected[i].exc
          /\ hist[k].status = "returned"
             => /\ hist[k].executed
                /\ \A i \in 1..Len(batch) :
                      make_pk(batch[i]) \in StoredKeys(hist[k].after)

\* A call that returned after storing rows, followed by a call left by a
\* ProgrammingError of create_all, inside try_until_allowed.
C10_Witness ==
    /\ Len(hist) = 2
    /\ hist[1].status = "returned"
    /\ Len(hist[1].after) > Len(hist[1].before)
    /\ hist[2].injected = <<[step |-> "create_all", exc |-> "ProgrammingError"]>>
    /\ hist[2].status = "raised"
    /\ hist[2].exc = "ProgrammingError"


\* The first underscore-delimited segment of a name: its longest prefix
\* without an underscore
Segment(s) ==
    LET k == CHOOSE k \in 0..Len(s) :
                 /\ \A i \in 1..k : s[i] # "_"
                 /\ (k < Len(s) => s[k + 1] = "_")
    IN SubSeq(s, 1, k)

Classes(Base) == { Base[i] : i \in { j \in 1..Len(Base) : "tablename" \in DOMAIN Base[j] } }

\* C11: resolving the table of a file matches the file name's first
\* underscore-delimited segment against the schema's table names: a class
\* returned has that segment as its table-name prefix, and when no class
\* has it a NameError naming the segment is raised, with nothing read or
\* written.
C11_ResolvesByPrefix ==
    (entry = "get_class_by_tablename" /\ pc = "done") =>
        LET seg == Segment(args.fname)
            hits == { c \in Classes(args.Base) : Segment(c.tablename) = seg }
        IN /\ status \in {"returned", "raised"}
           /\ status = "returned" => result.value \in hits
           /\ status = "raised" =>
                 /\ hits = {}
                 /\ exc = "NameError"
                 /\ result.value = seg
           /\ store = <<>> /\ hist = <<>> /\ loaded = <<>>

\* A class is found behind a registry value that has no __tablename__.
C11_Witness ==
    /\ entry = "get_class_by_tablename"
    /\ status = "returned"
    /\ Len(args.Base) = 2
    /\ "tablename" \notin DOMAIN args.Base[1]
    /\ result.value = args.Base[2]
    /\ result.value.tablename # Segment(args.fname)


\* C12: a per-file entry that is not a valid archive is an empty file:
\* reading it yields no batch and raises nothing, and a run over an archive
\* holding such an entry raises no error, writes no row for it and goes on
\* to the files after it, whatever the entry's name.
C12_NotAZipIsEmptyFile ==
    /\ (entry = "iterchunks" /\ pc = "done" /\ args.zipped_csv = NotAZip) =>
          (status = "returned" /\ result.value = <<>>)
    /\ (entry = "zipfile_to_db" /\ pc = "done" /\ restart_filename = None
        /\ archives[1].not_zip # {}) =>
          /\ status = "returned"
          /\ store = <<>>
          /\ \A i \in 1..Len(archives[1].files) :
                ~OnSkipList(archives[1].files[i]) =>
                    \E k \in 1..Len(loaded) :
                        loaded[k].fname = archives[1].files[i]


EndLines(script) == { i \in 1..Len(script) : HasText(script[i], END_PATTERN) }

\* The key region of a script with one PRIMARY KEY CLUSTERED line: the
\* indented lines after that line
KeyRegion(script) ==
    LET e == CHOOSE i \in EndLines(script) : TRUE
    IN SelectSeq(SubSeq(script, e + 1, Len(script)),
                 LAMBDA l : l # <<>> /\ l[1] = Tab
                            /\ ~HasText(l, START_PATTERN))

\* The first bracketed name of a line
FirstName(line) ==
    line[CHOOSE i \in 1..Len(line) :
            IsBr(line[i]) /\ \A j \in 1..(i - 1) : ~IsBr(line[j])].br

\* C13: for a script with exactly one key region, the primary-key list
\* returned has one lower-cased name per indented line of the key region,
\* in order, and at least one; a script whose key region gives no name is
\* refused with an error and returns nothing.
C13_KeysOfKeyRegion ==
    (entry = "parse_sql_table_fields" /\ pc = "done"
     /\ Cardinality(EndLines(args.sql_table_text)) = 1) =>
        LET region == KeyRegion(args.sql_table_text) IN
        /\ status = "returned" =>
              /\ Len(result.value.pkeys) >= 1
              /\ result.value.pkeys =
                    [i \in 1..Len(region) |-> Join(lower(FirstName(region[i])))]
        /\ region = <<>> =>
              /\ status = "raised"
              /\ result.value = None

\* A script with two key lines, one of them naming a column in upper case
C13_Witness ==
    /\ entry = "parse_sql_table_fields"
    /\ status = "returned"
    /\ Cardinality(EndLines(args.sql_table_text)) = 1
    /\ result.value.pkeys = <<"id", "zz">>


\* C14: every name of the primary-key list returned is a key of the field
\* mapping returned, so that the model generated from them marks each
\* declared primary key as one of its columns.
C14_KeysAreFields ==
    (entry = "parse_sql_table_fields" /\ pc = "done"
     /\ status = "returned") =>
        \A i \in 1..Len(result.value.pkeys) :
            \E k \in 1..Len(result.value.field_data) :
                /\ result.value.field_data[k].name = result.value.pkeys[i]
                /\ result.value.model[k].name = result.value.pkeys[i]
                /\ result.value.model[k].primary_key

\* The parenthesised length of a field line, if it has one
HasLength(line) == Len(line) >= 4 /\ IsParen(line[4])

\* C15: a field line with a parenthesised decimal integer gives that
\* integer as its length, with the token max in any case the token, with
\* no parenthesised length None; any other parenthesised length raises
\* the error 'Unexpected field length'.
C15_FieldLength ==
    (entry = "_get_field_data" /\ pc = "done"
     /\ Len(args.sql_line) >= 3 /\ IsBr(args.sql_line[2])
     /\ IsBr(args.sql_line[3])) =>
        LET line == args.sql_line IN
        IF ~HasLength(line)
        THEN status = "returned" /\ result.value[3] = None
        ELSE IF isdigit(line[4].paren)
        THEN status = "returned"
             /\ result.value[3] = I(ParseInt(line[4].paren, 0))
        ELSE IF lower(line[4].paren) = <<"m", "a", "x">>
        THEN status = "returned" /\ result.value[3] = Chars(line[4].paren)
        ELSE /\ status = "raised"
             /\ exc = "ValueError"
             /\ result.value = S("Unexpected field length")


\* The rows of all batches, in the order yielded
RECURSIVE Flatten(_)
Flatten(batches) ==
    IF batches = <<>> THEN <<>> ELSE Head(batches) \o Flatten(Tail(batches))

\* The data lines of the CSV files of a per-file entry, in source order
RECURSIVE LinesOf(_, _)
LinesOf(members, i) ==
    IF i > Len(members) THEN <<>>
    ELSE members[i].content \o LinesOf(members, i + 1)

SourceLines(zipped_csv) ==
    IF zipped_csv.valid THEN LinesOf(zipped_csv.infolist, 1) ELSE <<>>

\* C16: for the string primary-key column, the key component of a row
\* whose CSV cell is the text 007 is the string "007", whatever type the
\* chunked reader inferred for the column; the component of the
\* non-string key column is the value as read.
C16_StringKeyKeepsText ==
    (entry = "iterchunks" /\ pc = "done") =>
        LET rs == Flatten(result.value)
            src == SourceLines(args.zipped_csv)
        IN \A i \in 1..Len(rs) :
              i <= Len(src) =>
                  /\ src[i].k1 = <<"0", "0", "7">> =>
                        make_pk(rs[i])[1] = S("007")
                  /\ make_pk(rs[i])[2] = rs[i].k2


\* C17: whenever write_to_db returns normally with deduplication disabled,
\* the database and the table exist and every row of the batch is in the
\* store, put there by one bulk insert of the whole batch; an empty batch
\* inserts no row.
C17_BulkWriterPostcondition ==
    \A k \in 1..Len(hist) :
        (hist[k].status = "returned" /\ ~hist[k].filter_pks) =>
            /\ db_exists
            /\ table_exists
            /\ hist[k].executed
            /\ hist[k].arg = [i \in 1..Len(hist[k].batch) |->
                                 PyDict(hist[k].batch[i])]
            /\ hist[k].after = hist[k].before
                   \o [i \in 1..Len(hist[k].batch) |->
                          Stored(hist[k].batch[i])]


\* The places of the entries of a listing whose name starts with none of
\* the prefixes
KeptPlaces(members, prefixes) ==
    { i \in 1..Len(members) :
        \A p \in prefixes :
            \/ Len(p) > Len(members[i].filename)
            \/ \E j \in 1..Len(p) : members[i].filename[j] # p[j] }

\* C18: files_in_zipfile yields one item for each entry whose name starts
\* with no skip prefix, in listing order, the entry's file name first;
\* nothing for the other entries, and nothing at all for an invalid
\* archive.
C18_YieldsUnskippedEntries ==
    (entry = "files_in_zipfile" /\ pc = "done") =>
        /\ status = "returned"
        /\ ~args.bio.valid => result.value = <<>>
        /\ args.bio.valid =>
              LET kept == KeptPlaces(args.bio.infolist,
                                     args.skip_table_prefixes)
                  \* the place in the listing of the j-th entry kept
                  place(j) == CHOOSE i \in kept :
                                  Cardinality({ h \in kept : h <= i }) = j
              IN /\ Len(result.value) = Cardinality(kept)
                 /\ \A j \in 1..Len(result.value) :
                       /\ result.value[j][1] =
                             args.bio.infolist[place(j)].filename
                       /\ Len(result.value[j]) =
                             IF args.yield_zipfile_too THEN 3 ELSE 2

\* Three entries, the second skipped by a prefix, the others kept although
\* another prefix occurs inside their names
C18_Witness ==
    /\ entry = "files_in_zipfile"
    /\ status = "returned"
    /\ args.bio.valid
    /\ Len(args.bio.infolist) = 3
    /\ args.skip_table_prefixes = { <<"b">>, <<"1">> }
    /\ Len(result.value) = 2
    /\ args.bio.infolist[2].filename = <<"b", "_", "1">>


\* The value v is what the reader makes of the cell text t: None for a
\* missing value, else the text or the number it denotes
Reads(v, t) ==
    IF IsMissing(t) THEN v = None
    ELSE \/ v = S(Join(t))
         \/ IsIntText(t) /\ v \in { I(ParseInt(t, 0)), F(ParseInt(t, 0)) }

\* C19: iterchunks yields batches of at most chunksize rows each, whose
\* concatenation is the data rows of the CSV in source order, none
\* dropped, duplicated or reordered; a cell recognised as missing is None
\* and every other cell keeps the value read for it.
C19_BatchesCoverRows ==
    (entry = "iterchunks" /\ pc = "done") =>
        LET rs == Flatten(result.value)
            src == SourceLines(args.zipped_csv)
        IN /\ status = "returned"
           /\ \A k \in 1..Len(result.value) :
                 Len(result.value[k]) <= args.chunksize
           /\ Len(rs) = Len(src)
           /\ \A i \in 1..Len(rs) :
                 \A c \in Columns : Reads(rs[i][c], src[i][c])

\* Three data rows read in chunks of two, one of them with a missing cell
C19_Witness ==
    /\ entry = "iterchunks"
    /\ status = "returned"
    /\ args.chunksize = 2
    /\ Len(result.value) = 2
    /\ Len(result.value[1]) = 2
    /\ Len(result.value[2]) = 1
    /\ result.value[1][2].k2 = None
    /\ result.value[1][1].k1 # result.value[2][1].k1


\* C20: the scan of the stored keys ends after finitely many pages of at
\* most PkChunkSize keys each, which together hold every stored key: when
\* it has ended, the candidate keys left are exactly those absent from
\* the store, also for an empty table and for a table whose size is a
\* multiple of the page size.
C20_PagingCoversStore ==
    (entry = "write_to_db" /\ filter_pks) =>
        LET pages == Len(store) \div PkChunkSize + 1 IN
        /\ page_len <= PkChunkSize
        /\ offset <= pages * PkChunkSize
        /\ pc = "filter" =>
              /\ offset = pages * PkChunkSize
              /\ page_len = Len(store) % PkChunkSize
              /\ new_pks = { pks[i] : i \in 1..Len(pks) } \ StoredKeys(store)

\* The scan has ended on a table holding exactly one full page; it took
\* one candidate key away and left another.
C20_Witness ==
    /\ entry = "write_to_db"
    /\ pc = "filter"
    /\ Len(store) = PkChunkSize
    /\ new_pks # {}
    /\ new_pks # { pks[i] : i \in 1..Len(pks) }


\* C21: with one process running its batches one at a time, the keys left
\* after the scan hold no key that is stored, and no call inserts a row
\* whose key was stored when its scan started.  (With two processes the
\* scan and the insert of one can enclose the scan of the other:
\* C21_Witness.)
C21_SingleWriterSkipsStored ==
    other = NoWriter =>
        /\ (filter_pks /\ pc \in {"filter", "connect", "execute"}) =>
              new_pks \cap StoredKeys(store) = {}
        /\ \A k \in 1..Len(hist) :
              hist[k].filter_pks =>
                  \A j \in (Len(hist[k].before) + 1)..Len(hist[k].after) :
                      StoredKey(hist[k].after[j])
                          \notin StoredKeys(hist[k].before)

\* Two processes with batches that share a key not yet stored have both
\* finished their scan, neither has inserted, and both are about to pass
\* their rows for that key to the bulk insert.
C21_Witness ==
    /\ other # NoWriter
    /\ pc = "execute" /\ other.pc = "execute"
    /\ filter_pks /\ other.filter_pks
    /\ hist = <<>>
    /\ \E key \in new_pks \cap other.new_pks :
          /\ key \notin StoredKeys(store)
          /\ rows # <<>> /\ other.rows # <<>>

\* C22: write_to_db has finished (returned or raised) only with the session
\* and the connection it opened closed again, whichever way it was left.
C22_ReleasedOnEveryExit ==
    /\ pc = "done" => ~session_open /\ ~conn_open
    /\ \A k \in 1..Len(hist) :
          ~hist[k].session_open /\ ~hist[k].conn_open

=============================================================================
